---- MODULE Spec2Model ----
(***************************************************************************)
(* Model of the 100xEngineers discovery backend: the HTTP handlers of      *)
(* app/main.py, the identity resolver of app/auth.py, the table adapter of *)
(* app/database.py and the search formatter of app/search.py.              *)
(*                                                                         *)
(* The "profiles" table lives in the managed backend; every adapter call   *)
(* is one round trip, and a handler is a sequence of round trips that      *)
(* other requests may interleave with.  The backend itself is taken to     *)
(* answer every round trip (no transport failure); every exception the     *)
(* code itself produces is modelled.                                       *)
(***************************************************************************)
EXTENDS Integers, Sequences, FiniteSets, TLC

\* ------------------------------------------------------------------ bounds

\* Number of ids the backend hands out (initial rows and inserts together).
MaxId == 2

\* ------------------------------------------------------------------ values

\* Python None / SQL NULL / an absent JSON key.
Null == "null"

\* The tasks of the event loop that serve requests: two requests can be in
\* flight at the same time.
Slots == {"t1", "t2"}

Ids == 1..MaxId

\* Identities the auth service knows.
Emails == {"a@x.com", "b@x.com"}

\* Bearer credentials of a request: two live tokens, one that the auth
\* service rejects (malformed or expired), or no Authorization header.
Tokens == {"tokA", "tokB", "expired"}

NoHeader == "no Authorization header"

Credentials == Tokens \cup {NoHeader}

\* The fields of models.UserProfileCreate.
ProfileFields ==
    {"name", "skills", "bio", "projects", "collaboration_interests", "portfolio_url"}

\* The columns of a row of the profiles table.
Columns == ProfileFields \cup {"id", "email"}

\* Request bodies of POST/PUT.  Body1 carries an extra "email" key (not a
\* field of UserProfileCreate), Body2 does not.
Body1 ==
    [name |-> "A", skills |-> <<"x">>, bio |-> "b", projects |-> <<>>,
     collaboration_interests |-> <<>>, portfolio_url |-> "https://a.dev",
     email |-> "b@x.com"]

Body2 ==
    [name |-> "B", skills |-> <<"y", "z">>, bio |-> "c", projects |-> <<"p">>,
     collaboration_interests |-> <<"ai">>, portfolio_url |-> "https://b.dev",
     email |-> Null]

Bodies == {Body1, Body2}

\* The body of a request that has none (GET, DELETE).
NoBody ==
    [name |-> Null, skills |-> <<>>, bio |-> Null, projects |-> <<>>,
     collaboration_interests |-> <<>>, portfolio_url |-> Null, email |-> Null]

Queries == {"react developers"}

\* Result of a call: a value, None, or a raised exception.
Ok(v) == [exc |-> Null, val |-> <<v>>]

None == [exc |-> Null, val |-> <<>>]

Raise(e) == [exc |-> e, val |-> <<>>]

\* Python truthiness of an optional string.
Truthy(v) == v # Null /\ v # ""

\* ------------------------------------------------------------------ models.py

\* UserProfileCreate.model_dump(): the declared fields only; keys of the
\* body that the model does not declare are dropped at validation.
model_dump(body) == [f \in ProfileFields |-> body[f]]

\* ------------------------------------------------------------------ auth.py

\* supabase.auth.get_user(token): the user of a live token, or an error.
AuthGetUser(token) ==
    CASE token = "tokA" -> Ok("a@x.com")
      [] token = "tokB" -> Ok("b@x.com")
      [] OTHER -> Raise("AuthApiError")

\* security = HTTPBearer(): with no Authorization header the dependency
\* itself ends the request; the status is 403 or 401 depending on the
\* framework release.
NotAuthenticatedStatus == {401, 403}

get_current_user_Anonymous(token) ==
    LET user == AuthGetUser(token)
    IN  IF user.exc # Null
        THEN [status |-> 200, email |-> Null]
        ELSE [status |-> 200, email |-> user.val[1]]

\* get_current_user, given a bearer credential: the email, or 401.
get_current_user(token) ==
    LET user == AuthGetUser(token)
    IN  IF user.exc # Null
        THEN [status |-> 401, email |-> Null]
        ELSE [status |-> 200, email |-> user.val[1]]

\* ------------------------------------------------------------------ database.py

\* supabase.table("profiles").select("*").eq(col, v).execute().data
SelectEq(tbl, col, v) == SelectSeq(tbl, LAMBDA row : row[col] = v)

\* get_all_profiles: every row, in table order.
get_all_profiles(tbl) == tbl

\* get_profile: .single() raises APIError PGRST116 unless exactly one row
\* matches; matching that exception against postgrest.exceptions.APIError
\* raises NameError, because the module never imports postgrest.
get_profile(tbl, profile_id) ==
    LET data == SelectEq(tbl, "id", profile_id)
    IN  IF Len(data) = 1 THEN Ok(data[1]) ELSE Raise("NameError")

get_profile_by_email_Last(tbl, email) ==
    LET data == SelectEq(tbl, "email", email)
    IN  IF Len(data) > 1 THEN <<data[Len(data)]>> ELSE <<>>

\* get_profile_by_email: the first row with that email, or None.
get_profile_by_email(tbl, email) ==
    LET data == SelectEq(tbl, "email", email)
    IN  IF Len(data) > 0 THEN <<data[1]>> ELSE <<>>

\* The row .insert(profile_data) stores: the backend assigns the id.
InsertedRow(profile_data, newId) ==
    [c \in Columns |-> IF c = "id" THEN newId ELSE profile_data[c]]

DbInsertReuseId(tbl, profile_data, newId) ==
    LET used == {tbl[i]["id"] : i \in 1..Len(tbl)}
        free == CHOOSE id \in 1..(Len(tbl) + 1) :
                    id \notin used /\ \A j \in 1..(id - 1) : j \in used
    IN  Append(tbl, InsertedRow(profile_data, free))

DbInsertUnique(tbl, profile_data, newId) ==
    IF SelectEq(tbl, "email", profile_data["email"]) # <<>>
    THEN tbl
    ELSE Append(tbl, InsertedRow(profile_data, newId))

\* supabase.table("profiles").insert(profile_data).execute()
DbInsert(tbl, profile_data, newId) == Append(tbl, InsertedRow(profile_data, newId))

\* allowed_fields filter of update_profile.
AllowedFields ==
    {"name", "skills", "bio", "projects", "collaboration_interests", "portfolio_url"}

update_data(profile_data) ==
    [k \in (DOMAIN profile_data) \cap AllowedFields |-> profile_data[k]]

UpdatedRow(row, data) ==
    [c \in DOMAIN row |-> IF c \in DOMAIN data THEN data[c] ELSE row[c]]

DbUpdateNoFilter(tbl, profile_id, data) ==
    [i \in 1..Len(tbl) |-> UpdatedRow(tbl[i], data)]

\* supabase.table("profiles").update(data).eq("id", profile_id).execute()
DbUpdate(tbl, profile_id, data) ==
    [i \in 1..Len(tbl) |->
        IF tbl[i]["id"] = profile_id THEN UpdatedRow(tbl[i], data) ELSE tbl[i]]

\* supabase.table("profiles").delete().eq("id", profile_id).execute()
DbDelete(tbl, profile_id) == SelectSeq(tbl, LAMBDA row : row["id"] # profile_id)

\* ------------------------------------------------------------------ search.py

\* Texts the completion API can return: two that evaluate to a list of
\* {id, reason} records and two that do not evaluate.
CompletionTexts ==
    {"[]", "[{'id': 1, 'reason': 'match'}]", "Here are the matching profiles:", ""}

\* eval(text): the value of a Python literal, or SyntaxError.
Eval(text) ==
    CASE text = "[]" -> Ok(<<>>)
      [] text = "[{'id': 1, 'reason': 'match'}]" -> Ok(<<[id |-> 1, reason |-> "match"]>>)
      [] OTHER -> Raise("SyntaxError")

\* Outcomes of client.chat.completions.create: a text, or a raised API error.
Completions == {Ok(t) : t \in CompletionTexts} \cup {Raise("APIError")}

FallbackReversed(profileList) ==
    [i \in 1..Len(profileList) |->
        [id |-> profileList[Len(profileList) + 1 - i]["id"], reason |-> "Fallback result"]]

\* The except branch of search_with_llm.
Fallback(profileList) ==
    [i \in 1..Len(profileList) |->
        [id |-> profileList[i]["id"], reason |-> "Fallback result"]]

\* search_with_llm: the completion call is outside the try, so its error
\* propagates; a reply that does not evaluate gives the fallback list.
search_with_llm(query, profileList, completion) ==
    IF completion.exc # Null
    THEN Raise(completion.exc)
    ELSE LET response == Eval(completion.val[1])
         IN  IF response.exc = Null
             THEN Ok(response.val[1])
             ELSE Ok(Fallback(profileList))

\* ------------------------------------------------------------------ state

VARIABLES
    profiles,   \* the rows of the backend's profiles table, in table order
    nextId,     \* the id the backend assigns to the next inserted row
    req         \* per slot: the request in flight and the handler's position

vars == <<profiles, nextId, req>>

Ops == {"create", "list", "get", "update", "delete", "search"}

\* Endpoints whose description says "Authentication is optional".
OptionalAuthOps == {"list", "get", "search"}

RequiredAuthOps == {"create", "update", "delete"}

\* A slot with no request.
Idle ==
    [pc |-> "idle", op |-> Null, cred |-> Null, current_user |-> Null,
     profile_id |-> 0, body |-> NoBody, query |-> Null, status |-> 0, result |-> <<>>]

\* The requests a client can send: endpoint, credential, path id, body.
Requests ==
    {[Idle EXCEPT !.pc = "auth", !.op = op, !.cred = cred] :
        op \in {"list"}, cred \in Credentials}
    \cup {[Idle EXCEPT !.pc = "auth", !.op = "search", !.cred = cred, !.query = q] :
        cred \in Credentials, q \in Queries}
    \cup {[Idle EXCEPT !.pc = "auth", !.op = op, !.cred = cred, !.profile_id = id] :
        op \in {"get", "delete"}, cred \in Credentials, id \in Ids}
    \cup {[Idle EXCEPT !.pc = "auth", !.op = "create", !.cred = cred, !.body = body] :
        cred \in Credentials, body \in Bodies}
    \cup {[Idle EXCEPT !.pc = "auth", !.op = "update", !.cred = cred,
                       !.profile_id = id, !.body = body] :
        cred \in Credentials, id \in Ids, body \in Bodies}

InFlight(r) == req[r].pc \notin {"idle", "done"}

\* Rows that requests in flight may still insert.
PendingCreates == Cardinality({r \in Slots : InFlight(r) /\ req[r].op = "create"})

\* A legacy row: created before profiles recorded an owner email.
LegacyRow(e) ==
    [c \in Columns |->
        IF c = "id" THEN 1 ELSE IF c = "email" THEN e ELSE Body2[c]]

\* The table before the first request: empty, or one legacy row whose
\* email is NULL or empty.
InitTables == {<<>>, <<LegacyRow(Null)>>, <<LegacyRow("")>>}

Init ==
    /\ profiles \in InitTables
    /\ nextId = Len(profiles) + 1
    /\ req = [r \in Slots |-> Idle]

\* The response of a handler: the endpoint, the status and the body.
Response(request, status, result) ==
    [Idle EXCEPT !.pc = "done", !.op = request.op, !.status = status, !.result = result]

\* The response of a request that its dependency ended: it is kept with the
\* credential it answers.
Rejected(request, status) ==
    [Idle EXCEPT !.pc = "done", !.op = request.op, !.cred = request.cred,
                 !.status = status]

\* The handler of slot r ends with an HTTP response.
Respond(r, status, result) ==
    req' = [req EXCEPT ![r] = Response(req[r], status, result)]

Goto(r, pc) == req' = [req EXCEPT ![r].pc = pc]

\* Position of a handler after its dependencies resolved.
FirstStep(op) ==
    CASE op = "create" -> "create_check"
      [] op = "list" -> "list"
      [] op = "get" -> "get"
      [] op = "update" -> "update_read"
      [] op = "delete" -> "delete_read"
      [] op = "search" -> "search"

\* Depends(auth.get_current_user), the dependency of every profile and
\* search endpoint: HTTPBearer, then the token's verification.  The
\* outcomes for a request: ended with a status, or handed to its handler
\* with current_user set.
Authenticate(request) ==
    IF request.cred = NoHeader
    THEN {Rejected(request, s) : s \in NotAuthenticatedStatus}
    ELSE LET user == get_current_user(request.cred)
         IN  IF user.status # 200
             THEN {Rejected(request, user.status)}
             ELSE {[request EXCEPT !.pc = FirstStep(request.op),
                                   !.current_user = user.email]}

\* One of the given requests arrives on a free slot and its dependency
\* runs.  The auth service is no part of the profiles table, so the
\* dependency's round trip is taken together with the arrival.
Arrive(r, requests) ==
    /\ ~InFlight(r)
    /\ \E request \in requests :
          /\ request.op = "create" => nextId + PendingCreates <= MaxId
          /\ \E resolved \in Authenticate(request) :
                req' = [req EXCEPT ![r] = resolved]
    /\ UNCHANGED <<profiles, nextId>>

\* A request arrives.
Start(r) == Arrive(r, Requests)

\* ------------------------------------------------------------------ main.py

ProfileDictSetDefault(body, current_user) ==
    [k \in ProfileFields \cup {"email"} |->
        IF k = "email"
        THEN (IF body["email"] # Null THEN body["email"] ELSE current_user)
        ELSE model_dump(body)[k]]

\* profile_dict of create_profile: the dumped body with the caller as email.
ProfileDict(body, current_user) ==
    [k \in ProfileFields \cup {"email"} |->
        IF k = "email" THEN current_user ELSE model_dump(body)[k]]

UpdateForbiddenEq(existing_profile, current_user) ==
    /\ Truthy(existing_profile["email"])
    /\ existing_profile["email"] = current_user

UpdateForbiddenStrict(existing_profile, current_user) ==
    existing_profile["email"] # current_user

\* The ownership test of update_profile.
UpdateForbidden(existing_profile, current_user) ==
    /\ Truthy(existing_profile["email"])
    /\ existing_profile["email"] # current_user

DeleteForbiddenEq(existing_profile, current_user) ==
    /\ Truthy(existing_profile["email"])
    /\ existing_profile["email"] = current_user

\* The ownership test of delete_profile.
DeleteForbidden(existing_profile, current_user) ==
    /\ Truthy(existing_profile["email"])
    /\ existing_profile["email"] # current_user

\* POST /api/profiles, first round trip: database.create_profile looks the
\* caller's email up; a hit is ValueError, which the handler turns into 400.
CreateCheck(r) ==
    /\ req[r].pc = "create_check"
    /\ LET profile_data == ProfileDict(req[r].body, req[r].current_user)
           existing_profile == get_profile_by_email(profiles, profile_data["email"])
       IN  IF existing_profile # <<>>
           THEN Respond(r, 400, <<>>)
           ELSE Goto(r, "create_insert")
    /\ UNCHANGED <<profiles, nextId>>

\* POST /api/profiles, second round trip: the insert.
CreateInsert(r) ==
    /\ req[r].pc = "create_insert"
    /\ LET profile_data == ProfileDict(req[r].body, req[r].current_user)
           tbl == DbInsert(profiles, profile_data, nextId)
       IN  /\ profiles' = tbl
           /\ nextId' = nextId + 1
           /\ Respond(r, 200, <<tbl[Len(tbl)]>>)

\* GET /api/profiles
ListProfiles(r) ==
    /\ req[r].pc = "list"
    /\ Respond(r, 200, get_all_profiles(profiles))
    /\ UNCHANGED <<profiles, nextId>>

\* GET /api/profiles/{profile_id}
GetProfile(r) ==
    /\ req[r].pc = "get"
    /\ LET profile == get_profile(profiles, req[r].profile_id)
       IN  IF profile.exc # Null
           THEN Respond(r, 500, <<>>)
           ELSE IF profile.val = <<>>
           THEN Respond(r, 404, <<>>)
           ELSE Respond(r, 200, profile.val)
    /\ UNCHANGED <<profiles, nextId>>

\* PUT /api/profiles/{profile_id}, first round trip: read the profile and
\* test the ownership.
UpdateRead(r) ==
    /\ req[r].pc = "update_read"
    /\ LET existing_profile == get_profile(profiles, req[r].profile_id)
       IN  IF existing_profile.exc # Null
           THEN Respond(r, 500, <<>>)
           ELSE IF existing_profile.val = <<>>
           THEN Respond(r, 404, <<>>)
           ELSE IF UpdateForbidden(existing_profile.val[1], req[r].current_user)
           THEN Respond(r, 403, <<>>)
           ELSE Goto(r, "update_reread")
    /\ UNCHANGED <<profiles, nextId>>

\* PUT, second round trip: database.update_profile reads the profile again;
\* its ValueError and any other exception end as 500 in the handler.
UpdateReread(r) ==
    /\ req[r].pc = "update_reread"
    /\ LET existing_profile == get_profile(profiles, req[r].profile_id)
       IN  IF existing_profile.exc # Null \/ existing_profile.val = <<>>
           THEN Respond(r, 500, <<>>)
           ELSE Goto(r, "update_write")
    /\ UNCHANGED <<profiles, nextId>>

\* PUT, third round trip: the update by id; response.data[0] of an update
\* that matched no row is IndexError, hence 500.
UpdateWrite(r) ==
    /\ req[r].pc = "update_write"
    /\ LET data == update_data(model_dump(req[r].body))
           tbl == DbUpdate(profiles, req[r].profile_id, data)
           updated == SelectEq(tbl, "id", req[r].profile_id)
       IN  /\ profiles' = tbl
           /\ IF updated = <<>>
              THEN Respond(r, 500, <<>>)
              ELSE Respond(r, 200, <<updated[1]>>)
    /\ UNCHANGED nextId

\* DELETE /api/profiles/{profile_id}, first round trip: read the profile
\* and test the ownership.
DeleteRead(r) ==
    /\ req[r].pc = "delete_read"
    /\ LET existing_profile == get_profile(profiles, req[r].profile_id)
       IN  IF existing_profile.exc # Null
           THEN Respond(r, 500, <<>>)
           ELSE IF existing_profile.val = <<>>
           THEN Respond(r, 404, <<>>)
           ELSE IF DeleteForbidden(existing_profile.val[1], req[r].current_user)
           THEN Respond(r, 403, <<>>)
           ELSE Goto(r, "delete_write")
    /\ UNCHANGED <<profiles, nextId>>

\* DELETE, second round trip: the delete by id; response.data[0] of a
\* delete that matched no row is IndexError, hence 500.
DeleteWrite(r) ==
    /\ req[r].pc = "delete_write"
    /\ LET deleted == SelectEq(profiles, "id", req[r].profile_id)
       IN  /\ profiles' = DbDelete(profiles, req[r].profile_id)
           /\ IF deleted = <<>>
              THEN Respond(r, 500, <<>>)
              ELSE Respond(r, 200, <<>>)
    /\ UNCHANGED nextId

\* POST /api/search: the whole listing, then the completion call and its
\* parse.  The handler touches the table once, so both are one step.
SearchProfiles(r) ==
    /\ req[r].pc = "search"
    /\ \E completion \in Completions :
          LET profileList == get_all_profiles(profiles)
              search_results == search_with_llm(req[r].query, profileList, completion)
          IN  IF search_results.exc # Null
              THEN Respond(r, 500, <<>>)
              ELSE Respond(r, 200, search_results.val[1])
    /\ UNCHANGED <<profiles, nextId>>

\* One round trip of one handler.
Step(r) ==
    \/ CreateCheck(r)
    \/ CreateInsert(r)
    \/ ListProfiles(r)
    \/ GetProfile(r)
    \/ UpdateRead(r)
    \/ UpdateReread(r)
    \/ UpdateWrite(r)
    \/ DeleteRead(r)
    \/ DeleteWrite(r)
    \/ SearchProfiles(r)

\* Requests are served concurrently: any request in flight may take the
\* next round trip.
Next == \E r \in Slots : Start(r) \/ Step(r)

Spec == Init /\ [][Next]_vars

\* A request arrives after every earlier one has been answered.
StartSeq(r) ==
    /\ \A q \in Slots : ~InFlight(q)
    /\ \E request \in Requests :
          /\ request.op = "create" => nextId <= MaxId
          /\ \E resolved \in Authenticate(request) :
                req' = [q \in Slots |-> IF q = r THEN resolved ELSE Idle]
    /\ UNCHANGED <<profiles, nextId>>

\* Requests are served one at a time.
NextSeq == \E r \in Slots : StartSeq(r) \/ Step(r)

SpecSeq == Init /\ [][NextSeq]_vars

\* A POST /api/profiles arrives.
StartCreate(r) == Arrive(r, {request \in Requests : request.op = "create"})

\* Concurrent creation requests only.
NextCreates == \E r \in Slots : StartCreate(r) \/ CreateCheck(r) \/ CreateInsert(r)

SpecCreates == Init /\ [][NextCreates]_vars

\* A POST, PUT or DELETE under /api/profiles arrives.
StartMutation(r) == Arrive(r, {request \in Requests : request.op \in RequiredAuthOps})

\* Concurrent create, update and delete requests only.
NextMutations ==
    \E r \in Slots :
        \/ StartMutation(r)
        \/ CreateCheck(r)
        \/ CreateInsert(r)
        \/ UpdateRead(r)
        \/ UpdateReread(r)
        \/ UpdateWrite(r)
        \/ DeleteRead(r)
        \/ DeleteWrite(r)

SpecMutations == Init /\ [][NextMutations]_vars

\* ------------------------------------------------------------------ claims

\* The stored rows with a given id.
Stored(tbl, profile_id) == SelectEq(tbl, "id", profile_id)

\* Slot r holds a request at position pc whose handler takes this step.
Takes(r, pc) == req[r].pc = pc /\ req'[r] # req[r]

\* The request of slot r targets a stored profile whose recorded owner
\* email is present and is not the caller's.
TargetsForeign(r) ==
    \E i \in 1..Len(profiles) :
        /\ profiles[i]["id"] = req[r].profile_id
        /\ Truthy(profiles[i]["email"])
        /\ profiles[i]["email"] # req[r].current_user

\* The request of slot r targets a stored profile with no recorded owner
\* email (NULL or empty).
TargetsUnowned(r) ==
    \E i \in 1..Len(profiles) :
        /\ profiles[i]["id"] = req[r].profile_id
        /\ ~Truthy(profiles[i]["email"])

\* C1: a PUT by an authenticated caller on a stored profile whose owner
\* email is present and differs from the caller's identity is answered 403,
\* and the table (hence every field of that profile) is the same after the
\* request as before it.
C1_NonOwnerUpdateForbidden ==
    [][\A r \in Slots :
          (Takes(r, "update_read") /\ TargetsForeign(r))
              => /\ req'[r].pc = "done"
                 /\ req'[r].status = 403
                 /\ profiles' = profiles]_vars

\* C1 witness: a PUT was answered 403 by its handler (not by the
\* dependency) while the table holds an owned profile.
C1_Witness ==
    \E r \in Slots :
        /\ req[r].pc = "done" /\ req[r].op = "update"
        /\ req[r].status = 403 /\ req[r].cred = Null
        /\ \E i \in 1..Len(profiles) : Truthy(profiles[i]["email"])

\* C2: a DELETE by an authenticated caller on a stored profile whose owner
\* email is present and differs from the caller's identity is answered 403,
\* and the profile is still stored: reading it by id afterwards gives the
\* same row as before.
C2_NonOwnerDeleteKeepsProfile ==
    [][\A r \in Slots :
          (Takes(r, "delete_read") /\ TargetsForeign(r))
              => /\ req'[r].pc = "done"
                 /\ req'[r].status = 403
                 /\ get_profile(profiles', req[r].profile_id).val # <<>>
                 /\ get_profile(profiles', req[r].profile_id)
                       = get_profile(profiles, req[r].profile_id)]_vars

\* C2 witness: a DELETE was answered 403 by its handler and an owned
\* profile is still stored.
C2_Witness ==
    \E r \in Slots :
        /\ req[r].pc = "done" /\ req[r].op = "delete"
        /\ req[r].status = 403 /\ req[r].cred = Null
        /\ \E i \in 1..Len(profiles) : Truthy(profiles[i]["email"])

C4_CreateThenGet ==
    [][\A r \in Slots :
          /\ (Takes(r, "create_check")
                /\ SelectEq(profiles, "email", req[r].current_user) = <<>>)
                => req'[r].pc = "create_insert"
          /\ Takes(r, "create_insert")
                => /\ req'[r].pc = "done" /\ req'[r].status = 200
                   /\ Len(req'[r].result) = 1
                   /\ req'[r].result[1]["id"] \in Ids
                   /\ LET fetched == get_profile(profiles', req'[r].result[1]["id"])
                      IN  /\ fetched.exc = Null /\ fetched.val # <<>>
                          /\ fetched.val[1] = req'[r].result[1]
                          /\ fetched.val[1]["email"] = req[r].current_user
                          /\ req[r].current_user \in Emails
                          /\ \A f \in ProfileFields :
                                fetched.val[1][f] = req[r].body[f]]_vars

\* C4 witness: identity a@x.com posted Body1, whose "email" key names
\* b@x.com, and was answered with a profile of its own email.
C4_Witness ==
    \E r \in Slots :
        /\ req[r].pc = "done" /\ req[r].op = "create" /\ req[r].status = 200
        /\ req[r].result[1]["email"] = "a@x.com"
        /\ req[r].result[1]["name"] = Body1["name"]
        /\ get_profile(profiles, req[r].result[1]["id"]).val = req[r].result

\* No two stored profiles share a recorded owner email.
OnePerEmail(tbl) ==
    \A i, j \in 1..Len(tbl) :
        (i # j /\ Truthy(tbl[i]["email"])) => tbl[i]["email"] # tbl[j]["email"]

\* C5: with requests served one at a time, a POST by an identity whose
\* email already has a stored profile is answered 400 and inserts nothing,
\* and no two stored profiles ever share an owner email.
C5_SequentialOnePerEmail ==
    [][/\ \A r \in Slots :
            (Takes(r, "create_check")
                /\ SelectEq(profiles, "email", req[r].current_user) # <<>>)
                => /\ req'[r].pc = "done" /\ req'[r].status = 400
                   /\ profiles' = profiles /\ nextId' = nextId
       /\ OnePerEmail(profiles) => OnePerEmail(profiles')]_vars

\* C5 witness: a POST was answered 400 while the caller's profile is stored.
C5_Witness ==
    \E r \in Slots :
        /\ req[r].pc = "done" /\ req[r].op = "create" /\ req[r].status = 400
        /\ \E i \in 1..Len(profiles) : profiles[i]["email"] \in Emails

\* C6: with requests served concurrently, a POST that has passed the
\* existence check inserts its row and is answered 200 whatever the table
\* holds by then, so two POSTs of one identity that both passed the check
\* leave two profiles with the same email (the state of C6_Witness).
C6_InsertAfterCheckUnconditional ==
    [][\A r \in Slots :
          Takes(r, "create_insert")
              => /\ req'[r].pc = "done" /\ req'[r].status = 200
                 /\ Len(profiles') = Len(profiles) + 1
                 /\ profiles'[Len(profiles')]["email"] = req[r].current_user
                 /\ SubSeq(profiles', 1, Len(profiles)) = profiles]_vars

\* C6 witness: both requests are POSTs answered 200 and the table holds two
\* profiles with the same owner email.
C6_Witness ==
    /\ \A r \in Slots :
          req[r].pc = "done" /\ req[r].op = "create" /\ req[r].status = 200
    /\ \E i, j \in 1..Len(profiles) :
          /\ i # j
          /\ profiles[i]["email"] \in Emails
          /\ profiles[i]["email"] = profiles[j]["email"]

\* C7: a request to an optional-auth endpoint whose credential is missing
\* or rejected by the auth service is not ended by the dependency: it is
\* never answered with the dependency's 401 or 403.
C7_OptionalAuthServedAnonymously ==
    \A r \in Slots :
        (req[r].pc = "done" /\ req[r].op \in OptionalAuthOps
            /\ req[r].cred \in {"expired", NoHeader})
            => req[r].status \notin {401, 403}

\* C8: a GET, PUT or DELETE by an authenticated caller on an id with no
\* stored profile is answered 404, not 500, and leaves the table unchanged.
C8_MissingProfileNotFound ==
    [][\A r \in Slots :
          ((Takes(r, "get") \/ Takes(r, "update_read") \/ Takes(r, "delete_read"))
              /\ Stored(profiles, req[r].profile_id) = <<>>)
              => /\ req'[r].pc = "done"
                 /\ req'[r].status = 404
                 /\ profiles' = profiles]_vars

\* A completion whose text does not evaluate.
Unparseable(completion) ==
    completion.exc = Null /\ Eval(completion.val[1]).exc # Null

\* C9: for every query and the listing of every reachable table, when the
\* completion text does not evaluate, search_with_llm returns one record
\* {id, reason: "Fallback result"} per listed profile, in listing order.
C9_FallbackPerProfileInOrder ==
    \A query \in Queries, completion \in Completions :
        Unparseable(completion)
            => LET profileList == get_all_profiles(profiles)
                   results == search_with_llm(query, profileList, completion)
               IN  /\ results.exc = Null
                   /\ Len(results.val[1]) = Len(profileList)
                   /\ \A i \in 1..Len(profileList) :
                         /\ results.val[1][i]["id"] = profileList[i]["id"]
                         /\ results.val[1][i]["reason"] = "Fallback result"
                         /\ DOMAIN results.val[1][i] = {"id", "reason"}

\* C9 witness: a search over two stored profiles was answered with the
\* fallback list.
C9_Witness ==
    \E r \in Slots :
        /\ req[r].pc = "done" /\ req[r].op = "search" /\ req[r].status = 200
        /\ Len(profiles) = 2
        /\ req[r].result =
              <<[id |-> profiles[1]["id"], reason |-> "Fallback result"],
                [id |-> profiles[2]["id"], reason |-> "Fallback result"]>>

\* C10: a request to POST, PUT or DELETE whose bearer token the auth
\* service rejects is answered 401 on arrival with the table unchanged and
\* never reaches its handler; one whose token is verified reaches its
\* handler with current_user equal to the email the auth service returns for
\* that token.
C10_RequiredAuthGate ==
    [][\A r \in Slots :
          (~InFlight(r) /\ req'[r] # req[r]
              /\ req'[r].op \in RequiredAuthOps /\ req'[r].cred \in Tokens)
              => IF AuthGetUser(req'[r].cred).exc # Null
                 THEN /\ req'[r].pc = "done" /\ req'[r].status = 401
                      /\ profiles' = profiles /\ nextId' = nextId
                 ELSE /\ req'[r].pc = FirstStep(req'[r].op)
                      /\ req'[r].current_user = AuthGetUser(req'[r].cred).val[1]
                      /\ profiles' = profiles]_vars

\* C10 witness: a POST, PUT or DELETE with a rejected token was answered 401.
C10_Witness ==
    \E r \in Slots :
        /\ req[r].pc = "done" /\ req[r].op \in RequiredAuthOps
        /\ req[r].cred = "expired" /\ req[r].status = 401

\* The ids of the stored rows.
StoredIds(tbl) == {tbl[i]["id"] : i \in 1..Len(tbl)}

\* C11: under any sequence of operations, a PUT answered 200 leaves the number and order of rows, the id and the email
\* of its profile and every other row as they were, so that it changes at
\* most the six declared fields of the profile with its id; a DELETE
\* answered 200 removes exactly the rows with its id; and no step changes
\* the email of a profile that stays stored.
C11_MutationFrame ==
    [][/\ \A r \in Slots :
            /\ (Takes(r, "update_write") /\ req'[r].status = 200)
                  => /\ Len(profiles') = Len(profiles)
                     /\ \A i \in 1..Len(profiles) :
                           IF profiles[i]["id"] = req[r].profile_id
                           THEN /\ \A c \in Columns \ ProfileFields :
                                      profiles'[i][c] = profiles[i][c]
                                /\ \A f \in ProfileFields :
                                      profiles'[i][f] = req[r].body[f]
                           ELSE profiles'[i] = profiles[i]
            /\ (Takes(r, "delete_write") /\ req'[r].status = 200)
                  => /\ Stored(profiles, req[r].profile_id) # <<>>
                     /\ Stored(profiles', req[r].profile_id) = <<>>
                     /\ \A id \in StoredIds(profiles) \ {req[r].profile_id} :
                           Stored(profiles', id) = Stored(profiles, id)
                     /\ Len(profiles') = Len(profiles) - 1
       /\ \A id \in StoredIds(profiles) \cap StoredIds(profiles') :
             /\ Len(Stored(profiles', id)) = 1
             /\ Stored(profiles', id)[1]["email"] = Stored(profiles, id)[1]["email"]]_vars

\* C11 witness: a PUT was answered 200 while two profiles are stored, one
\* with the fields of Body1 and one with those of Body2.
C11_Witness ==
    /\ \E r \in Slots :
          req[r].pc = "done" /\ req[r].op = "update" /\ req[r].status = 200
    /\ Len(profiles) = 2
    /\ profiles[1]["name"] # profiles[2]["name"]
    /\ \E i \in 1..2 : profiles[i]["email"] \in Emails

\* C12: in every interleaving of concurrent create, update and delete
\* requests, no step of a request changes or removes a stored profile whose
\* recorded owner email is present and differs from the identity the
\* request was resolved to, although the ownership test and the mutation
\* are separate round trips.
C12_OwnershipHoldsAtMutation ==
    [][\A r \in Slots :
          (InFlight(r) /\ req'[r] # req[r])
              => \A i \in 1..Len(profiles) :
                    (Truthy(profiles[i]["email"])
                        /\ profiles[i]["email"] # req[r].current_user)
                        => Stored(profiles', profiles[i]["id"]) = <<profiles[i]>>]_vars

\* C12 witness: a PUT or DELETE has passed its ownership test and is about
\* to mutate, its profile has been removed by another request since the
\* test, and the table holds a profile owned by another identity.
C12_Witness ==
    \E r \in Slots :
        /\ req[r].pc \in {"update_write", "delete_write"}
        /\ Stored(profiles, req[r].profile_id) = <<>>
        /\ \E i \in 1..Len(profiles) :
              /\ Truthy(profiles[i]["email"])
              /\ profiles[i]["email"] # req[r].current_user

====
